---- MODULE Spec2Model ----
(***************************************************************************)
(* A model of text_blur.py: preprocess_image, detect_text_regions,         *)
(* apply_blur and blur_text_in_image.                                      *)
(*                                                                         *)
(* Strings are sequences of one-character strings.  An image is a          *)
(* function from <<row, column>> (0-based, as numpy indexes it) to a       *)
(* pixel value 0..255; one channel is modelled, the three channels of a    *)
(* BGR image being blurred independently of each other.  The OCR engine    *)
(* (pytesseract.image_to_data) is external: each invocation either raises  *)
(* or returns one of the word tables in Pages.                             *)
(***************************************************************************)
EXTENDS Integers, Sequences, FiniteSets

VARIABLES
    entry,                \* the function that was called
    pc,                   \* position in the program
    error,                \* the exception that ended the run, or "None"
    readable,             \* whether cv2.imread can read image_path
    text_to_blur,         \* blur_text_in_image's argument: <<"str", s>> or <<"list", l>>
    output_arg,           \* blur_text_in_image's output_path argument
    preprocessing_mode,
    min_confidence,
    blur_in,              \* blur_strength as passed by the caller
    blur_strength,        \* blur_strength after lines 196-197
    output_path,
    image,                \* the image read (or passed in), NoImage before
    text_to_find,         \* detect_text_regions' list of phrases
    preprocessed_images,
    results,              \* detect_text_regions' results list
    ti, vi, ci,           \* next iteration of the three nested loops (1-based)
    text,                 \* loop variable of line 95
    text_boxes,           \* line 96
    data,                 \* last table image_to_data returned
    outcome,              \* how the last try block ended: "none", "ok", "error"
    ocr_calls,            \* number of calls of pytesseract.image_to_data
    regions,              \* blur_text_in_image's regions / apply_blur's argument
    ksize,                \* blur_strength as received by apply_blur
    output,               \* apply_blur's output image, NoImage before the copy
    ri, bi,               \* next iteration of apply_blur's two loops (1-based)
    rect,                 \* x, y, x_end, y_end of the last iteration of line 164
    blurred,              \* how that iteration ended: "none", "blurred", "skipped"
    writes,               \* number of calls of cv2.imwrite
    file,                 \* what was written to output_path, NoImage if nothing
    retval                \* the value returned by the entry function, <<>> before

vars == <<entry, pc, error, readable, text_to_blur, output_arg, preprocessing_mode,
          min_confidence, blur_in, blur_strength, output_path, image, text_to_find,
          preprocessed_images, results, ti, vi, ci, text, text_boxes, data, outcome,
          ocr_calls, regions, ksize, output, ri, bi, rect, blurred, writes, file,
          retval>>

----------------------------------------------------------------------------
(* Bounds of the model *)

MaxPhrases == 2
MaxBlur == 3
ImageWidth == 8
ImageHeight == 6

\* min_confidence: int = 60
DefaultMinConfidence == 60

Min(a, b) == IF a < b THEN a ELSE b
Max(a, b) == IF a > b THEN a ELSE b
Range(s) == {s[k] : k \in 1..Len(s)}

----------------------------------------------------------------------------
(* Python string operations *)

\* str.lower(), one character
LowerChar(c) == CASE c = "A" -> "a" [] c = "B" -> "b" [] OTHER -> c

\* str.lower()
Lower(s) == [k \in 1..Len(s) |-> LowerChar(s[k])]

\* `a in b` for strings
IsSubstr(a, b) ==
    \E k \in 0..(Len(b) - Len(a)) : SubSeq(b, k + 1, k + Len(a)) = a

\* s.replace(' ', '')
IsNotSpace(c) == c /= " "
RemoveSpaces(s) == SelectSeq(s, IsNotSpace)

\* `not word.strip()`: the word is empty or only whitespace
IsBlank(w) == \A k \in 1..Len(w) : w[k] = " "

\* ' '.join(words)
RECURSIVE Join(_)
Join(words) ==
    IF Len(words) = 0 THEN <<>>
    ELSE IF Len(words) = 1 THEN words[1]
    ELSE words[1] \o <<" ">> \o Join(Tail(words))

\* seq[a:b] with 0 <= a (Python slice, end exclusive and clamped)
Slice(s, a, b) == SubSeq(s, a + 1, Min(b, Len(s)))

\* int(h * 0.5)
IntHalf(h) == IF h >= 0 THEN h \div 2 ELSE 0 - ((0 - h) \div 2)

\* int(data['conf'][i]): the engine reports a confidence as a decimal number,
\* held here in tenths (599 is 59.9); int() drops the fraction towards zero
IntConf(c) == IF c >= 0 THEN c \div 10 ELSE 0 - ((0 - c) \div 10)

----------------------------------------------------------------------------
(* preprocess_image *)

preprocess_image(mode) ==
    <<"original", "gray">> \o
    (IF mode \in {"aggressive", "all"}
     THEN <<"contrast", "binary", "adaptive", "sharpened", "denoised">>
     ELSE <<>>)

----------------------------------------------------------------------------
(* detect_text_regions: the pure parts *)

\* --psm of the four configurations of lines 84-89, and the list without its last
Configs_Three == <<6, 3, 11>>
configs == <<6, 3, 11, 1>>

\* the window sizes of line 121, and those of range(2)
WindowSizes_Two == 0..1
WindowSizes == 0..2

\* data['text']
Texts(d) == [k \in 1..Len(d) |-> d[k].text]

\* ' '.join(data['text'][max(0, i-j):i+j+1]).lower(), i 0-based
Window(d, i, j) == Lower(Join(Slice(Texts(d), Max(0, i - j), i + j + 1)))

\* rule (d) for one window size
WindowMatch(d, i, txt, j) == IsSubstr(Lower(txt), Window(d, i, j))

\* lines 117-121, i 0-based
Matches(d, i, txt) ==
    LET word_lower == Lower(d[i + 1].text)
        text_lower == Lower(txt)
    IN  \/ IsSubstr(text_lower, word_lower)
        \/ IsSubstr(word_lower, text_lower)
        \/ IsSubstr(RemoveSpaces(text_lower), RemoveSpaces(word_lower))
        \/ \E j \in WindowSizes : WindowMatch(d, i, txt, j)

\* line 109, and the same with <= for <
BelowConfidence_OrEqual(conf, minc) == conf <= minc
BelowConfidence(conf, minc) == conf < minc

\* lines 123-133, and the same with the width and height left as they were
PadBox_NoGrow(h) ==
    LET pad == IntHalf(h.height)
    IN  <<Max(0, h.left - pad), Max(0, h.top - pad), h.width, h.height>>
PadBox(h) ==
    LET pad == IntHalf(h.height)
    IN  <<Max(0, h.left - pad), Max(0, h.top - pad),
          h.width + 2 * pad, h.height + 2 * pad>>

\* lines 135-136, and the same without the test of line 135
AddBox_NoDedup(boxes, box) == Append(boxes, box)
AddBox(boxes, box) == IF box \in Range(boxes) THEN boxes ELSE Append(boxes, box)

\* the hit at 0-based index i passes lines 105-110
Eligible(d, i, minc) ==
    /\ ~IsBlank(d[i + 1].text)
    /\ ~BelowConfidence(IntConf(d[i + 1].conf), minc)

\* one iteration of the loop of line 104
ScanWord(d, i, txt, minc, boxes) ==
    IF Eligible(d, i, minc) /\ Matches(d, i, txt)
    THEN AddBox(boxes, PadBox(d[i + 1]))
    ELSE boxes

\* the loop of lines 104-137
RECURSIVE ScanWords(_, _, _, _, _)
ScanWords(d, i, txt, minc, boxes) ==
    IF i >= Len(d) THEN boxes
    ELSE ScanWords(d, i + 1, txt, minc, ScanWord(d, i, txt, minc, boxes))

----------------------------------------------------------------------------
(* Inputs *)

\* the phrases searched for: "ab" and "A b"
Phrases == {<<"a", "b">>, <<"A", " ", "b">>}

RECURSIVE SeqsUpTo(_, _)
SeqsUpTo(S, n) ==
    IF n = 0 THEN {<<>>}
    ELSE LET shorter == SeqsUpTo(S, n - 1)
         IN  shorter \cup {Append(s, e) : s \in {q \in shorter : Len(q) = n - 1}, e \in S}

PhraseLists == SeqsUpTo(Phrases, MaxPhrases)

Modes == {"default", "all", "fast"}

MinConfidences == {DefaultMinConfidence, DefaultMinConfidence + 1}

BlurInputs == (0 - 2)..MaxBlur

\* one row of image_to_data's table, the confidence in tenths
Hit(t, c, x, y, w, h) ==
    [text |-> t, conf |-> c, left |-> x, top |-> y, width |-> w, height |-> h]

\* A line "AB b y z" at the top-left corner of the image, as the engine reads
\* it from one variant or another; a second "ab" whose padded box passes the
\* right and bottom edges, and one of no extent on the corner; rows without a
\* word.  The confidences lie around the default threshold: 59.9, 60.0, 60.9.
WordAB(c) == Hit(<<"A", "B">>, c, 0, 1, 2, 2)
PageLine == <<WordAB(953), Hit(<<"b">>, DefaultMinConfidence * 10, 2, 1, 1, 2),
              Hit(<<"y">>, 917, 3, 1, 1, 2), Hit(<<"z">>, 906, 4, 1, 1, 2)>>
PageLow == <<WordAB(DefaultMinConfidence * 10 - 1)>>
PageBlank == <<Hit(<<>>, 0 - 10, 0, 0, ImageWidth, ImageHeight),
               Hit(<<" ", " ">>, 950, 0, 0, 1, 1)>>
PageEdge == <<Hit(<<"a", "b">>, 950, ImageWidth - 3, ImageHeight - 3, 3, 3),
              Hit(<<"a", "b">>, DefaultMinConfidence * 10 + 9, ImageWidth, ImageHeight, 0, 0)>>

Pages == {PageLine, PageLow, PageBlank, PageEdge}

\* Python's None, where an image is expected
NoImage == <<>>

\* the pixels of the file at image_path
SourceImage ==
    [p \in (0..(ImageHeight - 1)) \X (0..(ImageWidth - 1)) |->
        (p[1] * 53 + p[2] * 29 + p[1] * p[2] * 17 + 7) % 256]

----------------------------------------------------------------------------
(* detect_text_regions: the steps *)

\* lines 84-94
EnterDetect ==
    /\ text_to_find' = text_to_find
    /\ preprocessed_images' = preprocess_image(preprocessing_mode)
    /\ results' = <<>>
    /\ ti' = 1 /\ vi' = 1 /\ ci' = 1
    /\ UNCHANGED <<text, text_boxes, data, outcome, ocr_calls>>

\* One iteration of the loop of line 99, the try block having ended with
\* text_boxes = boxes, data = table and outcome = how: the loop heads of lines
\* 95-99 before it, and behind it lines 143-146 when it was the last
\* iteration of the enclosing loops.  Returning to blur_text_in_image (line
\* 217) ends the life of detect_text_regions' locals.
SweepStep(boxes, table, how) ==
    LET lastConfig == ci = Len(configs)
        lastImage  == vi = Len(preprocessed_images)
        lastText   == ti = Len(text_to_find)
        endOfText  == lastConfig /\ lastImage
        res        == IF endOfText /\ boxes /= <<>>
                      THEN Append(results, <<text_to_find[ti], boxes>>)
                      ELSE results
    IN  IF endOfText /\ lastText /\ entry = "blur_text_in_image"
        THEN /\ pc' = "detected"
             /\ regions' = res
             /\ results' = <<>> /\ preprocessed_images' = <<>>
             /\ ti' = 1 /\ vi' = 1 /\ ci' = 1
             /\ text' = <<>> /\ text_boxes' = <<>> /\ data' = <<>> /\ outcome' = "none"
             /\ retval' = retval
        ELSE /\ text' = text_to_find[ti]
             /\ text_boxes' = boxes
             /\ data' = table
             /\ outcome' = how
             /\ results' = res
             /\ preprocessed_images' = preprocessed_images
             /\ ci' = IF lastConfig THEN 1 ELSE ci + 1
             /\ vi' = IF ~lastConfig THEN vi ELSE IF lastImage THEN 1 ELSE vi + 1
             /\ ti' = IF endOfText THEN ti + 1 ELSE ti
             /\ regions' = regions
             /\ IF endOfText /\ lastText
                THEN pc' = "returned" /\ retval' = res
                ELSE pc' = "sweep" /\ retval' = retval

\* text_boxes at the top of the try block: line 96 resets it for a new phrase
BoxesSoFar == IF vi = 1 /\ ci = 1 THEN <<>> ELSE text_boxes

\* detect_text_regions called with an empty list, lines 84-94 and 146
DetectCallEmpty ==
    /\ pc = "call" /\ entry = "detect_text_regions"
    /\ text_to_find = <<>>
    /\ EnterDetect
    /\ pc' = "returned" /\ retval' = <<>>
    /\ UNCHANGED <<entry, error, readable, text_to_blur, output_arg, preprocessing_mode,
                   min_confidence, blur_in, blur_strength, output_path, image, regions,
                   ksize, output, ri, bi, rect, blurred, writes, file>>

\* detect_text_regions called, lines 84-94
DetectCall ==
    /\ pc = "call" /\ entry = "detect_text_regions"
    /\ text_to_find /= <<>>
    /\ EnterDetect
    /\ pc' = "sweep"
    /\ UNCHANGED <<entry, error, readable, text_to_blur, output_arg, preprocessing_mode,
                   min_confidence, blur_in, blur_strength, output_path, image, regions,
                   ksize, output, ri, bi, rect, blurred, writes, file, retval>>

\* lines 100-137: image_to_data returns a table and the loop of line 104 runs
OcrOk ==
    /\ pc = "sweep"
    /\ \E page \in Pages :
        SweepStep(ScanWords(page, 0, text_to_find[ti], min_confidence, BoxesSoFar),
                  page, "ok")
    /\ ocr_calls' = ocr_calls + 1
    /\ UNCHANGED <<entry, error, readable, text_to_blur, output_arg, preprocessing_mode,
                   min_confidence, blur_in, blur_strength, output_path, image,
                   text_to_find, ksize, output, ri, bi, rect, blurred, writes, file>>

\* lines 100-101 and 139-141: image_to_data raises, the handler prints and
\* continues; and the same without the handler
OcrFail_Propagates ==
    /\ pc = "sweep"
    /\ pc' = "raised" /\ error' = "Exception"
    /\ outcome' = "error"
    /\ ocr_calls' = ocr_calls + 1
    /\ text' = text_to_find[ti]
    /\ text_boxes' = BoxesSoFar
    /\ UNCHANGED <<entry, readable, text_to_blur, output_arg, preprocessing_mode,
                   min_confidence, blur_in, blur_strength, output_path, image,
                   text_to_find, preprocessed_images, results, ti, vi, ci, data, regions,
                   ksize, output, ri, bi, rect, blurred, writes, file, retval>>
OcrFail ==
    /\ pc = "sweep"
    /\ SweepStep(BoxesSoFar, data, "error")
    /\ ocr_calls' = ocr_calls + 1
    /\ UNCHANGED <<entry, error, readable, text_to_blur, output_arg, preprocessing_mode,
                   min_confidence, blur_in, blur_strength, output_path, image,
                   text_to_find, ksize, output, ri, bi, rect, blurred, writes, file>>

\* the state before any call
Blank ==
    /\ pc = "call" /\ error = "None"
    /\ blur_strength = blur_in /\ output_path = output_arg
    /\ preprocessed_images = <<>> /\ results = <<>>
    /\ ti = 1 /\ vi = 1 /\ ci = 1
    /\ text = <<>> /\ text_boxes = <<>> /\ data = <<>> /\ outcome = "none"
    /\ ocr_calls = 0
    /\ regions = <<>> /\ ksize = 0 /\ output = NoImage
    /\ ri = 1 /\ bi = 1 /\ rect = <<0, 0, 0, 0>> /\ blurred = "none"
    /\ writes = 0 /\ file = NoImage /\ retval = <<>>

\* detect_text_regions(image, text_to_find, preprocessing_mode, min_confidence)
InitDetect ==
    /\ entry = "detect_text_regions"
    /\ readable = TRUE
    /\ image = SourceImage
    /\ text_to_blur = <<"list", <<>>>>
    /\ output_arg = <<>>
    /\ blur_in = 51
    /\ text_to_find \in PhraseLists
    /\ preprocessing_mode \in Modes
    /\ min_confidence \in MinConfidences
    /\ Blank

NextDetect == DetectCallEmpty \/ DetectCall \/ OcrOk \/ OcrFail

SpecDetect == InitDetect /\ [][NextDetect]_vars

----------------------------------------------------------------------------
(* apply_blur: the pure parts *)

\* cv2.GaussianBlur's kernel for sigma 0, as integer weights (OpenCV's table
\* of small kernels: 1, 1/4 (1 2 1), 1/16 (1 4 6 4 1), 1/64 (2 7 14 18 14 7 2))
GaussianKernel(k) ==
    CASE k = 1 -> <<1>>
      [] k = 3 -> <<1, 2, 1>>
      [] k = 5 -> <<1, 4, 6, 4, 1>>
      [] k = 7 -> <<2, 7, 14, 18, 14, 7, 2>>

RECURSIVE SumTo(_, _)
SumTo(f, n) == IF n = 0 THEN 0 ELSE f[n] + SumTo(f, n - 1)

\* BORDER_REFLECT_101: the index read for position i of 0..n-1
Reflect101(i, n) ==
    IF n = 1 THEN 0
    ELSE LET period == 2 * (n - 1)
             m == i % period
         IN  IF m < n THEN m ELSE period - m

\* cv2.GaussianBlur(region, (k, k), 0) of a region of hh rows and ww columns
GaussianBlur(region, hh, ww, k) ==
    LET kernel == GaussianKernel(k)
        half   == (k - 1) \div 2
        total  == SumTo(kernel, k) * SumTo(kernel, k)
        term(p, m) ==
            LET a == (m - 1) \div k
                b == (m - 1) % k
            IN  kernel[a + 1] * kernel[b + 1] *
                region[<<Reflect101(p[1] + a - half, hh), Reflect101(p[2] + b - half, ww)>>]
    IN  [p \in DOMAIN region |->
            (SumTo([m \in 1..(k * k) |-> term(p, m)], k * k) + total \div 2) \div total]

\* lines 166-167, and the same without min
ClipRect_Unclipped(box, height, width) ==
    <<box[1], box[2], box[1] + box[3], box[2] + box[4]>>
ClipRect(box, height, width) ==
    <<box[1], box[2], Min(box[1] + box[3], width), Min(box[2] + box[4], height)>>

\* line 169, on <<x, y, x_end, y_end>>
NonEmpty(r) == r[4] > r[2] /\ r[3] > r[1]

\* a slice end as numpy reads it: clamped to the axis length
SliceEnd(e, n) == Min(e, n)

\* output[y:y_end, x:x_end]
Crop(img, r) ==
    [p \in (0..(SliceEnd(r[4], ImageHeight) - r[2] - 1)) \X
           (0..(SliceEnd(r[3], ImageWidth) - r[1] - 1)) |->
        img[<<r[2] + p[1], r[1] + p[2]>>]]

\* output[y:y_end, x:x_end] = patch, and the same with row y_end written too
Paste_OneRowMore(img, r, patch) ==
    [p \in DOMAIN img |->
        IF p[1] >= r[2] /\ p[1] <= r[4] /\ p[2] >= r[1] /\ p[2] < r[3]
        THEN patch[<<Min(p[1], SliceEnd(r[4], ImageHeight) - 1) - r[2], p[2] - r[1]>>]
        ELSE img[p]]
Paste(img, r, patch) ==
    [p \in DOMAIN img |->
        IF p[1] >= r[2] /\ p[1] < r[4] /\ p[2] >= r[1] /\ p[2] < r[3]
        THEN patch[<<p[1] - r[2], p[2] - r[1]>>]
        ELSE img[p]]

\* lines 170-173
BlurRect(img, r, k) ==
    Paste(img, r, GaussianBlur(Crop(img, r), SliceEnd(r[4], ImageHeight) - r[2],
                               SliceEnd(r[3], ImageWidth) - r[1], k))

\* the kernel sizes cv2.GaussianBlur accepts; it raises cv2.error on the others
ValidKernel(k) == k > 0 /\ k % 2 = 1

----------------------------------------------------------------------------
(* blur_text_in_image *)

\* lines 196-197, and the same without the increment
NormalizeBlur_Unchanged(b) == b
NormalizeBlur(b) == IF b % 2 = 0 THEN b + 1 ELSE b

\* image_path, as os.path.splitext splits it
image_path == <<"photo", ".jpg">>

\* lines 200-202
DerivedPath(given) ==
    IF given = <<>> THEN <<image_path[1], "_blurred", image_path[2]>> ELSE given

\* lines 210-211
AsList(arg) == IF arg[1] = "str" THEN <<arg[2]>> ELSE arg[2]

\* lines 195-207: cv2.imread returns None
ReadFails ==
    /\ pc = "call" /\ entry = "blur_text_in_image"
    /\ ~readable
    /\ blur_strength' = NormalizeBlur(blur_in)
    /\ output_path' = DerivedPath(output_arg)
    /\ image' = NoImage
    /\ pc' = "raised" /\ error' = "ValueError"
    /\ UNCHANGED <<entry, readable, text_to_blur, output_arg, preprocessing_mode,
                   min_confidence, blur_in, text_to_find, preprocessed_images, results,
                   ti, vi, ci, text, text_boxes, data, outcome, ocr_calls, regions,
                   ksize, output, ri, bi, rect, blurred, writes, file, retval>>

\* lines 195-219: the image is read and detect_text_regions entered
ReadOk ==
    /\ pc = "call" /\ entry = "blur_text_in_image"
    /\ readable
    /\ blur_strength' = NormalizeBlur(blur_in)
    /\ output_path' = DerivedPath(output_arg)
    /\ image' = SourceImage
    /\ text_to_find' = AsList(text_to_blur)
    /\ preprocessed_images' = IF AsList(text_to_blur) = <<>> THEN <<>>
                              ELSE preprocess_image(preprocessing_mode)
    /\ pc' = IF AsList(text_to_blur) = <<>> THEN "detected" ELSE "sweep"
    /\ UNCHANGED <<results, ti, vi, ci, text, text_boxes, data, outcome, ocr_calls>>
    /\ UNCHANGED <<entry, error, readable, text_to_blur, output_arg, preprocessing_mode,
                   min_confidence, blur_in, regions, ksize, output, ri, bi, rect,
                   blurred, writes, file, retval>>

\* lines 221-223, and the same with the image written all the same
NoMatch_Writes ==
    /\ pc = "detected"
    /\ regions = <<>>
    /\ writes' = writes + 1 /\ file' = image
    /\ retval' = output_path
    /\ pc' = "returned"
    /\ UNCHANGED <<entry, error, readable, text_to_blur, output_arg, preprocessing_mode,
                   min_confidence, blur_in, blur_strength, output_path, image,
                   text_to_find, preprocessed_images, results, ti, vi, ci, text,
                   text_boxes, data, outcome, ocr_calls, regions, ksize, output, ri, bi,
                   rect, blurred>>
NoMatch ==
    /\ pc = "detected"
    /\ regions = <<>>
    /\ retval' = output_path
    /\ pc' = "returned"
    /\ UNCHANGED <<entry, error, readable, text_to_blur, output_arg, preprocessing_mode,
                   min_confidence, blur_in, blur_strength, output_path, image,
                   text_to_find, preprocessed_images, results, ti, vi, ci, text,
                   text_boxes, data, outcome, ocr_calls, regions, ksize, output, ri, bi,
                   rect, blurred, writes, file>>

\* lines 226 and 161: apply_blur is called and copies the image
StartBlur ==
    /\ pc = "detected"
    /\ regions /= <<>>
    /\ ksize' = blur_strength
    /\ output' = image
    /\ ri' = 1 /\ bi' = 1
    /\ pc' = "blur"
    /\ UNCHANGED <<entry, error, readable, text_to_blur, output_arg, preprocessing_mode,
                   min_confidence, blur_in, blur_strength, output_path, image,
                   text_to_find, preprocessed_images, results, ti, vi, ci, text,
                   text_boxes, data, outcome, ocr_calls, regions, rect, blurred, writes,
                   file, retval>>

\* the box of the next iteration of line 164, and that iteration's x, y, x_end, y_end
NextBox == regions[ri][2][bi]
NextRect == ClipRect(NextBox, ImageHeight, ImageWidth)

\* the loop heads of lines 163-164, and the return of line 176 behind the last box
BlurAdvance ==
    LET lastBox  == bi = Len(regions[ri][2])
        lastText == ri = Len(regions)
    IN  /\ bi' = IF lastBox THEN 1 ELSE bi + 1
        /\ ri' = IF lastBox THEN ri + 1 ELSE ri
        /\ pc' = IF lastBox /\ lastText THEN "blurred" ELSE "blur"

\* lines 164-174: the clipped rectangle is not empty and is blurred
BlurRegion ==
    /\ pc = "blur"
    /\ NonEmpty(NextRect) /\ ValidKernel(ksize)
    /\ rect' = NextRect
    /\ output' = BlurRect(output, NextRect, ksize)
    /\ blurred' = "blurred"
    /\ BlurAdvance
    /\ UNCHANGED <<entry, error, readable, text_to_blur, output_arg, preprocessing_mode,
                   min_confidence, blur_in, blur_strength, output_path, image,
                   text_to_find, preprocessed_images, results, ti, vi, ci, text,
                   text_boxes, data, outcome, ocr_calls, regions, ksize, writes, file,
                   retval>>

\* lines 164-169: the clipped rectangle is empty
SkipRegion ==
    /\ pc = "blur"
    /\ ~NonEmpty(NextRect)
    /\ rect' = NextRect
    /\ blurred' = "skipped"
    /\ BlurAdvance
    /\ UNCHANGED <<entry, error, readable, text_to_blur, output_arg, preprocessing_mode,
                   min_confidence, blur_in, blur_strength, output_path, image,
                   text_to_find, preprocessed_images, results, ti, vi, ci, text,
                   text_boxes, data, outcome, ocr_calls, regions, ksize, output, writes,
                   file, retval>>

\* line 172: cv2.GaussianBlur rejects the kernel size and the error leaves the program
BlurRaises ==
    /\ pc = "blur"
    /\ NonEmpty(NextRect) /\ ~ValidKernel(ksize)
    /\ rect' = NextRect
    /\ pc' = "raised" /\ error' = "cv2.error"
    /\ UNCHANGED <<entry, readable, text_to_blur, output_arg, preprocessing_mode,
                   min_confidence, blur_in, blur_strength, output_path, image,
                   text_to_find, preprocessed_images, results, ti, vi, ci, text,
                   text_boxes, data, outcome, ocr_calls, regions, ksize, output, ri, bi,
                   blurred, writes, file, retval>>

\* lines 229-232
WriteOutput ==
    /\ pc = "blurred"
    /\ writes' = writes + 1
    /\ file' = output
    /\ retval' = output_path
    /\ pc' = "returned"
    /\ UNCHANGED <<entry, error, readable, text_to_blur, output_arg, preprocessing_mode,
                   min_confidence, blur_in, blur_strength, output_path, image,
                   text_to_find, preprocessed_images, results, ti, vi, ci, text,
                   text_boxes, data, outcome, ocr_calls, regions, ksize, output, ri, bi,
                   rect, blurred>>

\* a phrase alone, or a list of at most one phrase, or the list of both
TextArgs ==
    {<<"str", t>> : t \in Phrases}
    \cup {<<"list", l>> : l \in SeqsUpTo(Phrases, 1)}
    \cup {<<"list", <<<<"a", "b">>, <<"A", " ", "b">>>>>>}

\* blur_text_in_image(image_path, text_to_blur, output_path, preprocessing_mode,
\*                    min_confidence, blur_strength)
Init ==
    /\ entry = "blur_text_in_image"
    /\ readable \in BOOLEAN
    /\ image = NoImage
    /\ text_to_blur \in TextArgs
    /\ output_arg \in {<<>>, <<"out", ".png">>}
    /\ blur_in \in BlurInputs
    /\ text_to_find = <<>>
    /\ preprocessing_mode \in {"default", "aggressive"}
    /\ min_confidence = DefaultMinConfidence
    /\ Blank

Next ==
    \/ ReadFails \/ ReadOk
    \/ OcrOk \/ OcrFail
    \/ NoMatch \/ StartBlur
    \/ BlurRegion \/ SkipRegion \/ BlurRaises
    \/ WriteOutput

Spec == Init /\ [][Next]_vars

----------------------------------------------------------------------------
(* Properties of detect_text_regions, checked under SpecDetect *)

IsPrefix(a, b) == Len(a) <= Len(b) /\ SubSeq(b, 1, Len(a)) = a
NoDuplicates(s) == \A k, l \in 1..Len(s) : s[k] = s[l] => k = l
Indices(d) == 0..(Len(d) - 1)

\* C1 as stated: detect_text_regions invokes the OCR engine V x 4 times in
\* all, whatever the number of phrases (P >= 1).
C1_CallsIndependentOfPhrases ==
    (pc = "returned" /\ Len(text_to_find) >= 1)
        => ocr_calls = Len(preprocessed_images) * 4

\* C1 amended: detect_text_regions invokes the OCR engine P x V x 4 times, the
\* whole sweep over variants and configurations being repeated for each phrase.
C1_CallsPerPhrase ==
    pc = "returned"
        => ocr_calls = Len(text_to_find) * Len(preprocessed_images) * 4

C1_Witness ==
    /\ pc = "returned"
    /\ Len(text_to_find) = 2
    /\ Len(preprocessed_images) = 7
    /\ ocr_calls = 56

\* the pair of the loops of lines 95-99 that follows <<ti, vi, ci>>
PairAfter ==
    IF ci < 4 THEN <<ti, vi, ci + 1>>
    ELSE IF vi < Len(preprocessed_images) THEN <<ti, vi + 1, 1>>
    ELSE <<ti + 1, 1, 1>>

C2_Step ==
    pc = "sweep" =>
        /\ pc' \in {"sweep", "returned"}
        /\ error' = "None"
        /\ ocr_calls' = ocr_calls + 1
        /\ <<ti', vi', ci'>> = PairAfter
        /\ (pc' = "returned") = (ti' = Len(text_to_find) + 1)
        /\ IsPrefix(BoxesSoFar, text_boxes')
        /\ IsPrefix(results, results')
        /\ outcome' = "error" => text_boxes' = BoxesSoFar
        /\ (ti' = ti + 1 /\ text_boxes' /= <<>>)
                => results' = Append(results, <<text_to_find[ti], text_boxes'>>)
        /\ pc' = "returned" => retval' = results'

\* C2: an OCR invocation that raises is skipped: the next pair of variant and
\* configuration is invoked all the same, detect_text_regions returns normally,
\* and the boxes recorded by the other invocations stay in the result.
C2_FailureIsSkipped == [][C2_Step]_vars

C2_Witness ==
    /\ pc = "returned"
    /\ outcome = "error"
    /\ retval /= <<>>
    /\ ocr_calls = Len(text_to_find) * Len(preprocessed_images) * 4

C3_Step ==
    (pc = "sweep" /\ outcome' = "ok") =>
        /\ \A k \in (Len(BoxesSoFar) + 1)..Len(text_boxes') :
              \E i \in Indices(data') :
                  /\ data'[i + 1].conf >= 10 * min_confidence
                  /\ PadBox(data'[i + 1]) = text_boxes'[k]
        /\ \A i \in Indices(data') :
              ( /\ data'[i + 1].conf = 10 * min_confidence
                /\ ~IsBlank(data'[i + 1].text)
                /\ Matches(data', i, text') )
                  => PadBox(data'[i + 1]) \in Range(text_boxes')

\* C3: every box an invocation adds to text_boxes is the padded box of a hit
\* whose confidence is not below min_confidence (no box comes from a hit
\* strictly below it), and a matching hit whose confidence equals
\* min_confidence has its box recorded.
C3_ConfidenceFilter == [][C3_Step]_vars

C3_Witness ==
    /\ pc = "sweep"
    /\ outcome = "ok"
    /\ data = PageLow
    /\ min_confidence = DefaultMinConfidence
    /\ text_boxes = <<>>

\* rules (a), (b), (c) of lines 117-119
DirectMatch(word, txt) ==
    \/ IsSubstr(Lower(txt), Lower(word))
    \/ IsSubstr(Lower(word), Lower(txt))
    \/ IsSubstr(RemoveSpaces(Lower(txt)), RemoveSpaces(Lower(word)))

\* the lower-cased phrase is in the single-space join of words i-j..i+j
InWindow(d, i, txt, j) ==
    IsSubstr(Lower(txt),
             Lower(Join(SubSeq(Texts(d), Max(1, i + 1 - j), Min(Len(d), i + 1 + j)))))

\* C4 as stated: a hit that passes the filters and has the phrase in its
\* window of size j, for some j in 0..3, is matched and its box recorded.
C4_WindowUpToThree ==
    outcome = "ok" =>
        \A i \in Indices(data) :
            (Eligible(data, i, min_confidence) /\ \E j \in 0..3 : InWindow(data, i, text, j))
                => PadBox(data[i + 1]) \in Range(text_boxes)

C4_Recorded ==
    outcome = "ok" =>
        \A i \in Indices(data) :
            (Eligible(data, i, min_confidence) /\ \E j \in 0..2 : InWindow(data, i, text, j))
                => PadBox(data[i + 1]) \in Range(text_boxes)

C4_Step ==
    (pc = "sweep" /\ outcome' = "ok") =>
        \A k \in (Len(BoxesSoFar) + 1)..Len(text_boxes') :
            \E i \in Indices(data') :
                /\ PadBox(data'[i + 1]) = text_boxes'[k]
                /\ \/ DirectMatch(data'[i + 1].text, text')
                   \/ \E j \in 0..2 : InWindow(data', i, text', j)

\* C4 amended: rule (d) tries the window sizes 0, 1 and 2: a hit with the
\* phrase in such a window is matched, and a box is only recorded for a hit
\* that rules (a)-(c) or a window of size at most 2 match, so a phrase found
\* only with 3 neighbours on each side is not matched.
C4_WindowUpToTwo == [](C4_Recorded) /\ [][C4_Step]_vars

C4_Witness ==
    /\ outcome = "ok"
    /\ data = PageLine
    /\ text = <<"a", "b">>
    /\ ~DirectMatch(data[3].text, text) /\ InWindow(data, 2, text, 2)
    /\ PadBox(data[3]) \in Range(text_boxes)
    /\ ~DirectMatch(data[4].text, text) /\ InWindow(data, 3, text, 3)
    /\ PadBox(data[4]) \notin Range(text_boxes)

\* the boxes recorded against phrase p in a result, entry after entry
RECURSIVE BoxesOf(_, _)
BoxesOf(res, p) ==
    IF res = <<>> THEN <<>>
    ELSE (IF res[1][1] = p THEN res[1][2] ELSE <<>>) \o BoxesOf(Tail(res), p)

\* C5 as stated: for any list of input phrases, no box is recorded more than
\* once against a phrase in the result.
C5_NoBoxTwicePerPhrase ==
    pc = "returned" =>
        \A p \in Range(text_to_find) : NoDuplicates(BoxesOf(retval, p))

\* C5 amended: no entry of the result holds a box twice, and the result has
\* at most one entry per position of the input list, so that no box is
\* recorded twice against a phrase the list holds once.
C5_NoBoxTwicePerEntry ==
    /\ pc = "sweep" => NoDuplicates(text_boxes)
    /\ \A e \in 1..Len(results) : NoDuplicates(results[e][2])
    /\ pc = "returned" =>
          /\ retval = results
          /\ Len(retval) <= Len(text_to_find)
          /\ NoDuplicates(text_to_find)
                => \A p \in Range(text_to_find) : NoDuplicates(BoxesOf(retval, p))

C5_Witness ==
    /\ pc = "returned"
    /\ Len(retval) = 2
    /\ retval[1] = retval[2]
    /\ Len(retval[1][2]) >= 2

\* the box covers the hit's raw box
Covers(box, h) ==
    /\ box[1] <= h.left /\ box[2] <= h.top
    /\ box[1] + box[3] >= h.left + h.width
    /\ box[2] + box[4] >= h.top + h.height

\* C10: the padded box recorded for a matched hit with x, y, w, h >= 0
\* contains the hit's raw box, also when x or y was clamped to 0.
C10_PaddedBoxCoversRaw ==
    outcome = "ok" =>
        \A i \in Indices(data) :
            (Eligible(data, i, min_confidence) /\ Matches(data, i, text))
                => /\ PadBox(data[i + 1]) \in Range(text_boxes)
                   /\ Covers(PadBox(data[i + 1]), data[i + 1])

C10_Witness ==
    /\ outcome = "ok"
    /\ data = PageLine
    /\ data[1].left - IntHalf(data[1].height) < 0
    /\ <<0, 0, 4, 4>> \in Range(text_boxes)

----------------------------------------------------------------------------
(* Properties of apply_blur and blur_text_in_image, checked under Spec *)

\* the boxes of a regions list, in the order apply_blur visits them
RECURSIVE AllBoxes(_)
AllBoxes(regs) == IF regs = <<>> THEN <<>> ELSE regs[1][2] \o AllBoxes(Tail(regs))

\* the part of the box that lies in the image has no pixel
EmptyInImage(box) ==
    \/ Min(box[1] + box[3], ImageWidth) <= box[1]
    \/ Min(box[2] + box[4], ImageHeight) <= box[2]

C6_Blurred ==
    /\ \A b \in Range(AllBoxes(regions)) : b[1] >= 0 /\ b[2] >= 0
    /\ blurred = "blurred" =>
          /\ 0 <= rect[1] /\ rect[1] < rect[3] /\ rect[3] <= ImageWidth
          /\ 0 <= rect[2] /\ rect[2] < rect[4] /\ rect[4] <= ImageHeight

C6_Step ==
    (pc = "blur" /\ EmptyInImage(regions[ri][2][bi]))
        => (output' = output /\ blurred' = "skipped" /\ pc' /= "raised")

\* C6: the rectangle apply_blur blurs for a region of detect_text_regions lies
\* in the image (x >= 0, y >= 0, x_end <= width, y_end <= height), and a
\* region whose clipped area is empty is skipped and no pixel changes.
C6_ClippedToImage == [](C6_Blurred) /\ [][C6_Step]_vars

C6_Witness ==
    /\ pc = "blurred"
    /\ blurred = "skipped"
    /\ rect[1] = ImageWidth
    /\ output /= image
    /\ \E b \in Range(AllBoxes(regions)) :
          b[1] < ImageWidth /\ b[1] + b[3] > ImageWidth /\ b[2] + b[4] > ImageHeight

\* C7: the output file is written at most once, and only with the image read
\* and a non-empty detection result; an unreadable image ends the run with an
\* error before any OCR call or write; an empty detection result means no call
\* of apply_blur, no write, and output_path returned.
C7_WriteOnceAfterDetection ==
    /\ writes <= 1
    /\ (writes = 0) = (file = NoImage)
    /\ writes = 1 =>
          /\ pc = "returned" /\ readable /\ image /= NoImage
          /\ regions /= <<>> /\ output /= NoImage /\ file = output
          /\ retval = output_path
    /\ (~readable /\ pc /= "call") =>
          /\ pc = "raised" /\ error = "ValueError"
          /\ ocr_calls = 0 /\ writes = 0 /\ output = NoImage
    /\ (pc \in {"returned", "raised"} /\ readable /\ regions = <<>>) =>
          /\ pc = "returned" /\ retval = output_path
          /\ writes = 0 /\ output = NoImage

C7_Witness ==
    /\ pc = "returned"
    /\ regions = <<>>
    /\ ocr_calls = 8
    /\ writes = 0
    /\ retval = <<"photo", "_blurred", ".jpg">>

\* the pixel lies in the part of the box that is in the image
InClipped(p, box) ==
    /\ box[2] <= p[1] /\ p[1] < Min(box[2] + box[4], ImageHeight)
    /\ box[1] <= p[2] /\ p[2] < Min(box[1] + box[3], ImageWidth)

\* the image after the boxes were blurred one after the other, in list order
RECURSIVE BlurAll(_, _, _)
BlurAll(img, boxes, k) ==
    IF boxes = <<>> THEN img
    ELSE LET r == <<boxes[1][1], boxes[1][2],
                    Min(boxes[1][1] + boxes[1][3], ImageWidth),
                    Min(boxes[1][2] + boxes[1][4], ImageHeight)>>
         IN  BlurAll(IF r[3] > r[1] /\ r[4] > r[2] THEN BlurRect(img, r, k) ELSE img,
                     Tail(boxes), k)

Reverse(s) == [k \in 1..Len(s) |-> s[Len(s) + 1 - k]]

\* C8: apply_blur leaves the image it was given as it was, every pixel of its
\* output outside all the clipped regions equals the input's, and the regions
\* are blurred one after the other in list order.
C8_OnlyRegionsChange ==
    output /= NoImage =>
        /\ image = SourceImage
        /\ \A p \in DOMAIN image :
              (\A b \in Range(AllBoxes(regions)) : ~InClipped(p, b))
                  => output[p] = image[p]
        /\ pc = "blurred" => output = BlurAll(image, AllBoxes(regions), ksize)
        /\ pc = "returned" => file = output

C8_Witness ==
    /\ pc = "blurred"
    /\ output /= image
    /\ \E p \in DOMAIN image : \A b \in Range(AllBoxes(regions)) : ~InClipped(p, b)
    /\ \E p \in DOMAIN image :
          /\ InClipped(p, AllBoxes(regions)[1]) /\ InClipped(p, AllBoxes(regions)[2])
          /\ output[p] /= image[p]
    /\ output /= BlurAll(image, Reverse(AllBoxes(regions)), ksize)

\* the kernel size apply_blur received, set against the blur_strength passed in:
\* odd, at least the input, the input plus one for an even input and the input
\* itself for an odd one
C9_Handed ==
    output /= NoImage =>
        /\ ksize % 2 = 1
        /\ ksize >= blur_in
        /\ blur_in % 2 = 0 => ksize = blur_in + 1
        /\ blur_in % 2 = 1 => ksize = blur_in

C9_Step ==
    (pc = "blur" /\ blur_in < 0 /\ NonEmpty(NextRect))
        => (pc' = "raised" /\ error' = "cv2.error")

====
